---- MODULE Spec2Model ----
(***************************************************************************)
(* JSONL-Wizard: the conversation store of the JSONL viewer/editor.        *)
(*                                                                         *)
(* Two implementations of the same component are modelled side by side:    *)
(*   variant "page"   : src/src/app/page.tsx   (Page, purely in-memory)    *)
(*   variant "editor" : src/unnamed/part_000   (JsonlEditor, mirrors the   *)
(*                      text to a server and downloads from it)            *)
(*                                                                         *)
(* Text is a sequence of units.  A unit is a single character where       *)
(* split('\n'), trim() or JSON's string escapes look at characters (line   *)
(* feed, carriage return, space, quote, backslash, the letters of the      *)
(* escapes), a run of ordinary letters (a role, a word), or a fixed        *)
(* fragment of a conversation document such as {"role":" .                 *)
(*                                                                         *)
(* Objects have identity: a conversation is a reference into `heap`, and   *)
(* Array.prototype.indexOf and === compare references.                     *)
(***************************************************************************)
EXTENDS Integers, Sequences, FiniteSets, TLC

-----------------------------------------------------------------------------
(* Text primitives                                                         *)

LF     == "\n"
CR     == "\r"
SP     == " "
QUOTE  == "\""
BSLASH == "\\"

\* White space of String.prototype.trim; JSON's insignificant white space is
\* the same set restricted to the units used here.
Whitespace == {SP, CR, LF}

\* Characters JSON forbids unescaped inside a string literal (U+0000..U+001F).
ControlChars == {CR, LF}

\* content.split('\n')
RECURSIVE Split(_)
Split(s) ==
    IF \A i \in 1..Len(s) : s[i] # LF
    THEN <<s>>
    ELSE LET k == CHOOSE i \in 1..Len(s) :
                     s[i] = LF /\ \A j \in 1..(i - 1) : s[j] # LF
         IN  <<SubSeq(s, 1, k - 1)>> \o Split(SubSeq(s, k + 1, Len(s)))

\* lines.join('\n')
RECURSIVE Join(_)
Join(lines) ==
    IF lines = <<>> THEN <<>>
    ELSE IF Len(lines) = 1 THEN lines[1]
    ELSE lines[1] \o <<LF>> \o Join(Tail(lines))

\* line.trim()
Trim(s) ==
    LET keep == {i \in 1..Len(s) : s[i] \notin Whitespace}
    IN  IF keep = {} THEN <<>>
        ELSE LET lo == CHOOSE i \in keep : \A j \in keep : i <= j
                 hi == CHOOSE i \in keep : \A j \in keep : j <= i
             IN  SubSeq(s, lo, hi)

-----------------------------------------------------------------------------
(* The text of a conversation document.  Its fixed fragments are single    *)
(* units; what lies between them, a role or a content, is unit by unit.    *)

DocOpen  == "{\"messages\":["
MsgOpen  == "{\"role\":\""
MsgMid   == "\",\"content\":\""
MsgClose == "\"}"
Comma    == ","
DocClose == "]}"

\* the fragments that hold a quote, which no string value can hold unescaped
Fragments == {DocOpen, MsgOpen, MsgMid, MsgClose, DocClose}

-----------------------------------------------------------------------------
(* JSON.stringify of a conversation                                        *)

\* an escaper that leaves the backslash as it is
EscapeCharQuoteOnly(c) ==
    IF c = QUOTE THEN <<BSLASH, QUOTE>>
    ELSE IF c = LF THEN <<BSLASH, "n">>
    ELSE IF c = CR THEN <<BSLASH, "r">>
    ELSE <<c>>

EscapeChar(c) ==
    IF c = QUOTE THEN <<BSLASH, QUOTE>>
    ELSE IF c = BSLASH THEN <<BSLASH, BSLASH>>
    ELSE IF c = LF THEN <<BSLASH, "n">>
    ELSE IF c = CR THEN <<BSLASH, "r">>
    ELSE <<c>>

\* the body of a string literal
RECURSIVE EscapeAll(_)
EscapeAll(s) ==
    IF s = <<>> THEN <<>> ELSE EscapeChar(Head(s)) \o EscapeAll(Tail(s))

StringifyMessage(m) ==
    <<MsgOpen>> \o EscapeAll(m.role) \o <<MsgMid>> \o EscapeAll(m.content)
    \o <<MsgClose>>

RECURSIVE StringifyMessages(_)
StringifyMessages(ms) ==
    IF ms = <<>> THEN <<>>
    ELSE IF Len(ms) = 1 THEN StringifyMessage(ms[1])
    ELSE StringifyMessage(ms[1]) \o <<Comma>> \o StringifyMessages(Tail(ms))

\* JSON.stringify(conv) for conv = { messages: [...] }
JSONStringify(conv) ==
    <<DocOpen>> \o StringifyMessages(conv.messages) \o <<DocClose>>

-----------------------------------------------------------------------------
(* JSON.parse of one line.  The parser accepts the conversation documents  *)
(* { "messages": [ { "role": s, "content": s }, ... ] }, with white space  *)
(* around and between their fragments and escapes in their strings, and    *)
(* rejects every other text.  The lines fed to it are either such          *)
(* documents or not JSON at all, so on them it agrees with JSON.parse.     *)

Unescape(c) ==
    IF c = "n" THEN LF ELSE IF c = "r" THEN CR ELSE c

\* The parser's state.  mode: "start" before the document, "array" after
\* its [, "role" and "content" inside those string literals, "element"
\* after a message, "comma" after a comma, "end" after the document,
\* "fail".  esc: a backslash was just read inside a string.  cur: the open
\* string's value; role: the open message's role; messages: those read.
ParseStart ==
    [mode |-> "start", esc |-> FALSE, cur |-> <<>>, role |-> <<>>,
     messages |-> <<>>]

Failed(st) == [st EXCEPT !.mode = "fail"]

\* the parser's step on the unit c
ParseStep(st, c) ==
    CASE st.mode = "fail" -> st
      [] st.mode \in {"role", "content"} /\ st.esc ->
            IF c \in {QUOTE, BSLASH, "n", "r"}
            THEN [st EXCEPT !.esc = FALSE, !.cur = Append(@, Unescape(c))]
            ELSE Failed(st)
      [] st.mode \in {"role", "content"} /\ ~st.esc ->
            IF c = BSLASH THEN [st EXCEPT !.esc = TRUE]
            ELSE IF st.mode = "role" /\ c = MsgMid
            THEN [st EXCEPT !.mode = "content", !.role = st.cur, !.cur = <<>>]
            ELSE IF st.mode = "content" /\ c = MsgClose
            THEN [st EXCEPT !.mode = "element", !.cur = <<>>,
                            !.messages = Append(@, [role |-> st.role,
                                                    content |-> st.cur])]
            ELSE IF c \in {QUOTE} \cup ControlChars \cup Fragments
            THEN Failed(st)
            ELSE [st EXCEPT !.cur = Append(@, c)]
      [] st.mode \notin {"role", "content", "fail"} /\ c \in Whitespace -> st
      [] st.mode = "start" /\ c = DocOpen -> [st EXCEPT !.mode = "array"]
      [] st.mode \in {"array", "comma"} /\ c = MsgOpen ->
            [st EXCEPT !.mode = "role"]
      [] st.mode \in {"array", "element"} /\ c = DocClose ->
            [st EXCEPT !.mode = "end"]
      [] st.mode = "element" /\ c = Comma -> [st EXCEPT !.mode = "comma"]
      [] OTHER -> Failed(st)

\* JSON.parse(line): ok = FALSE stands for the SyntaxError it throws
JSONParse(line) ==
    LET st[i \in 0..Len(line)] ==
            IF i = 0 THEN ParseStart ELSE ParseStep(st[i - 1], line[i])
    IN  IF st[Len(line)].mode = "end"
        THEN [ok |-> TRUE, val |-> [messages |-> st[Len(line)].messages]]
        ELSE [ok |-> FALSE, val |-> [messages |-> <<>>]]

-----------------------------------------------------------------------------
(* Positions.  The code's array indices are 0-based; the model's sequence  *)
(* positions are the code's index + 1, so indexOf's "not found" (-1) is 0  *)
(* and an error's `line: index + 1` is the model's position itself.        *)

Null     == 0     \* null: no selected conversation, no message being edited
NotFound == 0     \* Array.prototype.indexOf's -1

\* arr.indexOf(x): the first position holding x, by reference equality
IndexOf(arr, x) ==
    IF \E i \in 1..Len(arr) : arr[i] = x
    THEN CHOOSE i \in 1..Len(arr) : arr[i] = x /\ \A j \in 1..(i - 1) : arr[j] # x
    ELSE NotFound

-----------------------------------------------------------------------------
(* parseContent: the forEach over the lines                                *)

\* an error record that keeps the trimmed line
NewErrorTrimmed(index, line) == [line |-> index, content |-> Trim(line)]

NewError(index, line) == [line |-> index, content |-> line]

\* an iteration without the blank-line test: JSON.parse throws on a blank line
ParseLineNoBlankCheck(acc, line, index) ==
    IF JSONParse(line).ok
    THEN [acc EXCEPT !.parsedConversations = Append(@, JSONParse(line).val)]
    ELSE [acc EXCEPT !.newErrors = Append(@, [line |-> index, content |-> line])]

\* an iteration that puts a parsed line in front (unshift) instead of push
ParseLineUnshift(acc, line, index) ==
    IF Trim(line) # <<>>
    THEN IF JSONParse(line).ok
         THEN [acc EXCEPT !.parsedConversations = <<JSONParse(line).val>> \o @]
         ELSE [acc EXCEPT !.newErrors = Append(@, [line |-> index, content |-> line])]
    ELSE acc

\* One iteration of lines.forEach((line, index) => ...), acc being the pair
\* (parsedConversations, newErrors) built so far.
ParseLine(acc, line, index) ==
    IF Trim(line) # <<>>
    THEN IF JSONParse(line).ok
         THEN [acc EXCEPT !.parsedConversations = Append(@, JSONParse(line).val)]
         ELSE [acc EXCEPT !.newErrors = Append(@, NewError(index, line))]
    ELSE acc

RECURSIVE ParseLines(_, _, _)
ParseLines(lines, index, acc) ==
    IF index > Len(lines) THEN acc
    ELSE ParseLines(lines, index + 1, ParseLine(acc, lines[index], index))

\* The two lists parseContent(content) hands to setConversations / setErrors.
ParseContent(content) ==
    ParseLines(Split(content), 1, [parsedConversations |-> <<>>, newErrors |-> <<>>])

\* conversations.map(conv => JSON.stringify(conv)).join('\n')
RECURSIVE StringifyAll(_)
StringifyAll(convs) ==
    IF convs = <<>> THEN <<>>
    ELSE <<JSONStringify(Head(convs))>> \o StringifyAll(Tail(convs))

Serialize(convs) == Join(StringifyAll(convs))

-----------------------------------------------------------------------------
(* Bounds and inputs                                                       *)

MaxOps   == 3    \* uploads, confirmed edits and downloads in one behaviour
MaxLines == 3    \* lines of a text fed to parseContent on its own

Msg(r, c) == [role |-> <<r>>, content |-> c]

\* {"messages":[{"role":"user","content":"hi"}]}
UserHi == JSONStringify([messages |-> <<Msg("user", <<"hi">>)>>])
\* {"messages":[{"role":"assistant","content":"hello"}]}
AssistantHello == JSONStringify([messages |-> <<Msg("assistant", <<"hello">>)>>])
\* {"messages":[{"role":"user","content":"hi"},{"role":"assistant","content":"hello"}]}
Dialogue ==
    JSONStringify([messages |-> <<Msg("user", <<"hi">>), Msg("assistant", <<"hello">>)>>])
\* {"messages":[{"role":"user","content":"a\nb \"c\""}]}  (escapes in the source)
Escaped ==
    JSONStringify([messages |-> <<Msg("user", <<"a", LF, "b", SP, QUOTE, "c", QUOTE>>)>>])
\* {"messages":[]}
NoMessages == JSONStringify([messages |-> <<>>])
NotJson == <<"not", SP, "json">>
\* a document cut off before its end
Truncated == SubSeq(UserHi, 1, Len(UserHi) - 2)

\* The files a user uploads.
ExampleFile == Join(<<UserHi, <<>>, NotJson, Dialogue>>)
BadFile     == Join(<<<<SP>>, NotJson>>)
TwinsFile   == Join(<<AssistantHello, AssistantHello, <<>>>>)
Files == {ExampleFile, BadFile, TwinsFile}

\* The lines of the texts fed to parseContent on its own: blank, white space
\* only, not JSON, truncated JSON with white space around it, documents, a
\* document of a CRLF file and a document with white space around it.
Lines ==
    {<<>>, <<SP>>, NotJson, <<SP>> \o Truncated \o <<CR>>, UserHi,
     AssistantHello \o <<CR>>, <<SP>> \o Escaped \o <<SP>>, NoMessages}

TextsOfLength(k) == {Join(ls) : ls \in [1..k -> Lines]}
Texts == UNION {TextsOfLength(k) : k \in 1..MaxLines}

\* What a user types into the textarea and into the search box.
Drafts == {<<"hi", SP, "there">>, <<"x", LF, QUOTE, BSLASH, "n">>}
Terms  == {<<>>, <<"HELLO">>}

-----------------------------------------------------------------------------
(* State                                                                   *)

VARIABLES
    variant,               \* "page" or "editor": which component is mounted
    conversations,         \* useState<Conversation[]>: references into heap
    heap,                  \* the conversation objects, by reference
    selectedConversation,  \* useState<Conversation | null>: a reference or Null
    searchTerm,            \* useState('')
    errors,                \* useState<ParsingError[]>
    editingMessage,        \* useState<number | null>: a message position or Null
    editedContent,         \* useState('')
    reads,                 \* file reads in flight, in the order they were started
    posts,                 \* POST /api/update-jsonl bodies in flight, in issue order
    gets,                  \* GET /api/get-jsonl requests in flight
    serverCode,            \* the text the server holds
    toasts,                \* what the toast sink has received
    downloaded,            \* the files saved as conversations.jsonl
    effectPending,         \* a render whose effect dependencies changed is
                           \* committed and the effect has not run yet
    crashed,               \* a render threw: the component is unmounted
    nOps                   \* uploads, confirmed edits and downloads so far

vars ==
    <<variant, conversations, heap, selectedConversation, searchTerm, errors,
      editingMessage, editedContent, reads, posts, gets, serverCode, toasts,
      downloaded, effectPending, crashed, nOps>>

EmptyExportToast    == "No data available to download. Please import or create some data first."
MirrorFailedToast   == "Failed to update server code. Please try again."
DownloadFailedToast == "Failed to download JSONL. Please try again."

Init ==
    /\ variant \in {"page", "editor"}
    /\ conversations = <<>>
    /\ heap = <<>>
    /\ selectedConversation = Null
    /\ searchTerm = <<>>
    /\ errors = <<>>
    /\ editingMessage = Null
    /\ editedContent = <<>>
    /\ reads = <<>>
    /\ posts = <<>>
    /\ gets = 0
    /\ serverCode = <<>>
    /\ toasts = <<>>
    /\ downloaded = <<>>
    /\ effectPending = FALSE
    /\ crashed = FALSE
    /\ nOps = 0

-----------------------------------------------------------------------------
(* Derived views                                                           *)

\* the conversation objects of the collection, in order
Values(convs, hp) == [i \in 1..Len(convs) |-> hp[convs[i]]]

Collection == Values(conversations, heap)

\* String.prototype.toLowerCase, unit by unit
ToLowerUnit(c) ==
    IF c = "Conversation" THEN "conversation"
    ELSE IF c = "HELLO" THEN "hello"
    ELSE c

ToLowerCase(s) == [i \in 1..Len(s) |-> ToLowerUnit(s[i])]

\* String.prototype.includes
Includes(s, q) ==
    \E i \in 0..(Len(s) - Len(q)) : SubSeq(s, i + 1, i + Len(q)) = q

\* `Conversation ${index + 1}`, position being the code's index + 1
Label(position) == <<"Conversation", SP, ToString(position)>>

\* a predicate that lower-cases the texts searched but not the search term
MatchesCaseSensitive(conv, position, term) ==
    \/ Includes(ToLowerCase(JSONStringify(conv)), term)
    \/ Includes(ToLowerCase(Label(position)), term)

\* the predicate of conversations.filter((conv, index) => ...)
Matches(conv, position, term) ==
    \/ Includes(ToLowerCase(JSONStringify(conv)), ToLowerCase(term))
    \/ Includes(ToLowerCase(Label(position)), ToLowerCase(term))

RECURSIVE FilterFrom(_, _, _, _)
FilterFrom(convs, hp, term, position) ==
    IF position > Len(convs) THEN <<>>
    ELSE (IF Matches(hp[convs[position]], position, term)
          THEN <<convs[position]>> ELSE <<>>)
         \o FilterFrom(convs, hp, term, position + 1)

\* filteredConversations: the references that pass the filter, in order
FilteredConversations == FilterFrom(conversations, heap, searchTerm, 1)

-----------------------------------------------------------------------------
(* Objects                                                                 *)

\* a reference no object of hp has: what an object literal or spread yields
Fresh(hp) == CHOOSE r \in 1..(Cardinality(DOMAIN hp) + 1) : r \notin DOMAIN hp

\* The state after setConversations(convs) and setSelectedConversation(sel)
\* over the objects hp.  Objects nothing refers to any more are dropped and
\* the rest renumbered (the collection's objects by position, a selected
\* object outside the collection after them); the program cannot observe a
\* reference's number, only whether two references are the same.
Commit(convs, sel, hp) ==
    LET n        == Len(convs)
        detached == sel # Null /\ IndexOf(convs, sel) = NotFound
        newSel   == IF sel = Null THEN Null
                    ELSE IF detached THEN n + 1
                    ELSE IndexOf(convs, sel)
    IN  /\ conversations' = [i \in 1..n |-> i]
        /\ selectedConversation' = newSel
        /\ heap' = [r \in 1..(IF detached THEN n + 1 ELSE n) |->
                        IF r <= n THEN hp[convs[r]] ELSE hp[sel]]

\* the objects JSON.parse returned for the parsed lines: fresh ones
ParsedObjects(parsed) == [i \in 1..Len(parsed) |-> parsed[i]]

RemoveAt(seq, k) == SubSeq(seq, 1, k - 1) \o SubSeq(seq, k + 1, Len(seq))

Usable == ~crashed /\ ~effectPending

-----------------------------------------------------------------------------
(* Import                                                                  *)

\* handleFileUpload up to the point where the file's text is being read
\* (reader.readAsText(file) / await file.text())
HandleFileUpload(file) ==
    /\ Usable
    /\ nOps < MaxOps
    /\ reads' = Append(reads, file)
    /\ nOps' = nOps + 1
    /\ UNCHANGED <<variant, conversations, heap, selectedConversation, searchTerm,
                   errors, editingMessage, editedContent, posts, gets, serverCode,
                   toasts, downloaded, effectPending, crashed>>

\* updateServerCode(newCode) up to its await: the request is in flight
UpdateServerCode(newCode) == posts' = Append(posts, newCode)

\* a parseContent that appends to the collection and the errors it finds
ParseContentMerging(content) ==
    LET result == ParseContent(content)
        old    == Len(conversations)
        all    == [r \in 1..(old + Len(result.parsedConversations)) |->
                      IF r <= old THEN heap[conversations[r]]
                      ELSE result.parsedConversations[r - old]]
    IN  /\ Commit([i \in 1..Len(all) |-> i], Null, all)
        /\ errors' = errors \o result.newErrors

\* parseContent(content): the three set calls
ParseContentInto(content) ==
    LET result == ParseContent(content)
    IN  /\ Commit([i \in 1..Len(result.parsedConversations) |-> i], Null,
                  ParsedObjects(result.parsedConversations))
        /\ errors' = result.newErrors

\* reader.onload / the continuation of await file.text(): the k-th read in
\* flight completes
ReadComplete(k) ==
    /\ Usable
    /\ k \in 1..Len(reads)
    /\ reads' = RemoveAt(reads, k)
    /\ ParseContentInto(reads[k])
    /\ IF variant = "editor" THEN UpdateServerCode(reads[k]) ELSE UNCHANGED posts
    /\ effectPending' = TRUE
    /\ UNCHANGED <<variant, searchTerm, editingMessage, editedContent, gets,
                   serverCode, toasts, downloaded, crashed, nOps>>

-----------------------------------------------------------------------------
(* Selection, search, auto-selection                                        *)

\* a lookup of the k-th entry of the rendered list by structure instead of
\* by reference: the first conversation equal to it in content
OriginalIndexByValue(k) ==
    CHOOSE i \in 1..Len(conversations) :
        /\ heap[conversations[i]] = heap[FilteredConversations[k]]
        /\ \A j \in 1..(i - 1) :
             heap[conversations[j]] # heap[FilteredConversations[k]]

\* const originalIndex = conversations.indexOf(conv), conv being the k-th
\* entry of filteredConversations.map
OriginalIndex(k) == IndexOf(conversations, FilteredConversations[k])

\* A click on the k-th entry of the rendered list:
\* handleConversationSelect(conversations.indexOf(conv))
HandleConversationSelect(k) ==
    /\ Usable
    /\ k \in 1..Len(FilteredConversations)
    /\ Commit(conversations, conversations[OriginalIndex(k)], heap)
    /\ editingMessage' = Null
    /\ effectPending' = TRUE
    /\ UNCHANGED <<variant, searchTerm, errors, editedContent, reads, posts, gets,
                   serverCode, toasts, downloaded, crashed, nOps>>

\* handleSearchChange / the Input's onChange
HandleSearchChange(term) ==
    /\ Usable
    /\ term # searchTerm
    /\ searchTerm' = term
    /\ effectPending' = TRUE
    /\ UNCHANGED <<variant, conversations, heap, selectedConversation, errors,
                   editingMessage, editedContent, reads, posts, gets, serverCode,
                   toasts, downloaded, crashed, nOps>>

\* an effect that selects the last entry of the filtered view
AutoSelectLast ==
    /\ ~crashed
    /\ effectPending
    /\ IF Len(FilteredConversations) > 0 /\ selectedConversation = Null
       THEN Commit(conversations,
                   FilteredConversations[Len(FilteredConversations)], heap)
       ELSE UNCHANGED <<conversations, heap, selectedConversation>>
    /\ effectPending' = FALSE
    /\ UNCHANGED <<variant, searchTerm, errors, editingMessage, editedContent,
                   reads, posts, gets, serverCode, toasts, downloaded, crashed,
                   nOps>>

\* the useEffect on [filteredConversations, selectedConversation]
AutoSelectEffect ==
    /\ ~crashed
    /\ effectPending
    /\ IF Len(FilteredConversations) > 0 /\ selectedConversation = Null
       THEN Commit(conversations, FilteredConversations[1], heap)
       ELSE UNCHANGED <<conversations, heap, selectedConversation>>
    /\ effectPending' = FALSE
    /\ UNCHANGED <<variant, searchTerm, errors, editingMessage, editedContent,
                   reads, posts, gets, serverCode, toasts, downloaded, crashed,
                   nOps>>

-----------------------------------------------------------------------------
(* Editing                                                                 *)

\* selectedConversation.messages, as rendered (nothing when nothing is
\* selected)
SelectedMessages ==
    IF selectedConversation = Null THEN <<>>
    ELSE heap[selectedConversation].messages

\* the textarea and the confirm button are rendered for the message whose
\* position equals editingMessage, inside the selected conversation
EditBoxShown ==
    /\ editingMessage # Null
    /\ editingMessage \in 1..Len(SelectedMessages)

\* the pencil button of message m of the selected conversation
StartEdit(m) ==
    /\ Usable
    /\ m \in 1..Len(SelectedMessages)
    /\ editingMessage' = m
    /\ editedContent' = SelectedMessages[m].content
    /\ UNCHANGED <<variant, conversations, heap, selectedConversation, searchTerm,
                   errors, reads, posts, gets, serverCode, toasts, downloaded,
                   effectPending, crashed, nOps>>

\* the textarea's onChange
TypeDraft(draft) ==
    /\ Usable
    /\ EditBoxShown
    /\ draft # editedContent
    /\ editedContent' = draft
    /\ UNCHANGED <<variant, conversations, heap, selectedConversation, searchTerm,
                   errors, editingMessage, reads, posts, gets, serverCode, toasts,
                   downloaded, effectPending, crashed, nOps>>

\* { content: text } without the spread of the message: its role is lost
WithContentOnly(conv, mi, text) ==
    [conv EXCEPT !.messages[mi] = [role |-> <<>>, content |-> text]]

\* { ...message, content: text } at position mi of conv.messages
WithContent(conv, mi, text) == [conv EXCEPT !.messages[mi].content = text]

\* the updater page.tsx passes to setSelectedConversation: the object that
\* replaces a non-null prevSelected
SelectedUpdater(prevSelected, messageIndex, text) ==
    WithContent(prevSelected, messageIndex, text)

\* page.tsx handleMessageEdit: both updaters build new objects.  With
\* conversationIndex = -1 the first updater spreads undefined.messages and
\* throws while rendering, which unmounts the component.
PageMessageEdit(conversationIndex, messageIndex) ==
    IF conversationIndex = NotFound
    THEN /\ crashed' = TRUE
         /\ UNCHANGED <<conversations, heap, selectedConversation, editingMessage,
                        editedContent, posts>>
    ELSE LET updatedConversation ==
                 WithContent(heap[conversations[conversationIndex]], messageIndex,
                             editedContent)
             updatedSelected ==
                 SelectedUpdater(heap[selectedConversation], messageIndex,
                                 editedContent)
             a  == Fresh(heap)
             h1 == (a :> updatedConversation) @@ heap
             b  == Fresh(h1)
             h2 == (b :> updatedSelected) @@ h1
         IN  /\ Commit([conversations EXCEPT ![conversationIndex] = a],
                       IF selectedConversation # Null THEN b ELSE Null, h2)
             /\ editingMessage' = Null
             /\ editedContent' = <<>>
             /\ UNCHANGED <<crashed, posts>>

\* part_000 handleMessageEdit: the message is assigned in place.  With
\* conversationIndex = -1 the assignment throws in the handler before any
\* state is set.
EditorMessageEdit(conversationIndex, messageIndex) ==
    IF conversationIndex = NotFound
    THEN UNCHANGED <<conversations, heap, selectedConversation, editingMessage,
                     editedContent, posts, crashed>>
    ELSE LET target  == conversations[conversationIndex]
             mutated == [heap EXCEPT ![target] =
                             WithContent(heap[target], messageIndex, editedContent)]
         IN  /\ Commit(conversations, target, mutated)
             /\ UpdateServerCode(Serialize(Values(conversations, mutated)))
             /\ editingMessage' = Null
             /\ editedContent' = <<>>
             /\ UNCHANGED crashed

HandleMessageEdit(conversationIndex, messageIndex) ==
    IF variant = "page"
    THEN PageMessageEdit(conversationIndex, messageIndex)
    ELSE EditorMessageEdit(conversationIndex, messageIndex)

\* the confirm button:
\* handleMessageEdit(conversations.indexOf(selectedConversation), messageIndex)
ConfirmEdit ==
    /\ Usable
    /\ EditBoxShown
    /\ nOps < MaxOps
    /\ HandleMessageEdit(IndexOf(conversations, selectedConversation), editingMessage)
    /\ nOps' = nOps + 1
    /\ effectPending' = TRUE
    /\ UNCHANGED <<variant, searchTerm, errors, reads, gets, serverCode, toasts,
                   downloaded>>

-----------------------------------------------------------------------------
(* Export and the server                                                   *)

\* POST /api/update-jsonl { code }: the server keeps the text it is sent
ServerUpdate(code) == serverCode' = code

\* GET /api/get-jsonl: the server returns the text it holds
ServerGet == serverCode

Toast(description) == toasts' = Append(toasts, description)

\* a handleDownload without the guard on the empty collection
HandleDownloadUnguarded ==
    /\ Usable
    /\ nOps < MaxOps
    /\ nOps' = nOps + 1
    /\ IF variant = "page"
       THEN /\ downloaded' = Append(downloaded, Serialize(Collection))
            /\ UNCHANGED <<toasts, gets>>
       ELSE /\ gets' = gets + 1
            /\ UNCHANGED <<toasts, downloaded>>
    /\ UNCHANGED <<variant, conversations, heap, selectedConversation, searchTerm,
                   errors, editingMessage, editedContent, reads, posts, serverCode,
                   effectPending, crashed>>

\* handleDownload up to its return or its await
HandleDownload ==
    /\ Usable
    /\ nOps < MaxOps
    /\ nOps' = nOps + 1
    /\ IF Len(conversations) = 0
       THEN /\ Toast(EmptyExportToast)
            /\ UNCHANGED <<downloaded, gets>>
       ELSE IF variant = "page"
            THEN /\ downloaded' = Append(downloaded, Serialize(Collection))
                 /\ UNCHANGED <<toasts, gets>>
            ELSE /\ gets' = gets + 1
                 /\ UNCHANGED <<toasts, downloaded>>
    /\ UNCHANGED <<variant, conversations, heap, selectedConversation, searchTerm,
                   errors, editingMessage, editedContent, reads, posts, serverCode,
                   effectPending, crashed>>

\* part_000 handleDownload after await fetch('/api/get-jsonl')
GetResponse(ok) ==
    /\ ~crashed
    /\ gets > 0
    /\ gets' = gets - 1
    /\ IF ok
       THEN /\ downloaded' = Append(downloaded, ServerGet)
            /\ UNCHANGED toasts
       ELSE /\ Toast(DownloadFailedToast)
            /\ UNCHANGED downloaded
    /\ UNCHANGED <<variant, conversations, heap, selectedConversation, searchTerm,
                   errors, editingMessage, editedContent, reads, posts, serverCode,
                   effectPending, crashed, nOps>>

\* an updateServerCode whose catch reports nothing
PostResponseSilent(k, ok) ==
    /\ ~crashed
    /\ k \in 1..Len(posts)
    /\ posts' = RemoveAt(posts, k)
    /\ IF ok THEN ServerUpdate(posts[k]) ELSE UNCHANGED serverCode
    /\ UNCHANGED <<variant, conversations, heap, selectedConversation, searchTerm,
                   errors, editingMessage, editedContent, reads, gets, toasts,
                   downloaded, effectPending, crashed, nOps>>

\* updateServerCode after await fetch('/api/update-jsonl'): the k-th request
\* in flight is answered
PostResponse(k, ok) ==
    /\ ~crashed
    /\ k \in 1..Len(posts)
    /\ posts' = RemoveAt(posts, k)
    /\ IF ok
       THEN /\ ServerUpdate(posts[k])
            /\ UNCHANGED toasts
       ELSE /\ Toast(MirrorFailedToast)
            /\ UNCHANGED serverCode
    /\ UNCHANGED <<variant, conversations, heap, selectedConversation, searchTerm,
                   errors, editingMessage, editedContent, reads, gets, downloaded,
                   effectPending, crashed, nOps>>

-----------------------------------------------------------------------------
(* Specifications                                                          *)

\* no file read and no request is in flight
Quiet == reads = <<>> /\ posts = <<>> /\ gets = 0

\* The store with a prompt, reliable environment: a file read completes and
\* a request is answered before the next user event.  The completion and
\* response steps read and write reads, posts, gets, serverCode, toasts and
\* downloaded only, so delaying or failing them changes nothing of the
\* collection, the errors, the selection or the edit state.
Next ==
    \/ \E file \in Files : Quiet /\ HandleFileUpload(file)
    \/ ReadComplete(1)
    \/ \E k \in 1..Len(FilteredConversations) : Quiet /\ HandleConversationSelect(k)
    \/ \E term \in Terms : Quiet /\ HandleSearchChange(term)
    \/ AutoSelectEffect
    \/ \E m \in 1..Len(SelectedMessages) : Quiet /\ StartEdit(m)
    \/ \E draft \in Drafts : Quiet /\ TypeDraft(draft)
    \/ Quiet /\ ConfirmEdit
    \/ Quiet /\ HandleDownload
    \/ GetResponse(TRUE)
    \/ PostResponse(1, TRUE)

Spec == Init /\ [][Next]_vars

\* parseContent on its own: one upload of any text of up to MaxLines lines
ParseNext ==
    \/ \E text \in Texts : nOps = 0 /\ HandleFileUpload(text)
    \/ ReadComplete(1)
    \/ AutoSelectEffect

SpecParse == Init /\ [][ParseNext]_vars

\* What a user types into the search box when the filter is looked at on
\* its own: nothing, a word in capitals, a label, a word no text holds.
Queries == Terms \cup {<<"Conversation", SP, "2">>, <<"zzz">>}

\* the filter on its own: imports, searches and selections
SearchNext ==
    \/ \E file \in Files : Quiet /\ HandleFileUpload(file)
    \/ ReadComplete(1)
    \/ \E k \in 1..Len(FilteredConversations) : Quiet /\ HandleConversationSelect(k)
    \/ \E term \in Queries : Quiet /\ HandleSearchChange(term)
    \/ AutoSelectEffect
    \/ PostResponse(1, TRUE)

SpecSearch == Init /\ [][SearchNext]_vars

\* The same with the scheduling React guarantees: an effect whose
\* dependencies changed runs once the render is committed.
SpecLive == SpecSearch /\ WF_vars(AutoSelectEffect)

\* Two uploads, the second started while the first may still be read: the
\* first of any text, the second of SecondFile; reads complete in any order.
SecondFile == ExampleFile

OverlapNext ==
    \/ \E text \in Texts : nOps = 0 /\ HandleFileUpload(text)
    \/ nOps = 1 /\ HandleFileUpload(SecondFile)
    \/ \E k \in 1..Len(reads) : ReadComplete(k)
    \/ AutoSelectEffect

SpecOverlap == Init /\ [][OverlapNext]_vars

\* The store with an unreliable network: requests are not awaited, they are
\* answered in any order and any of them may fail.
NetNext ==
    \/ \E file \in Files : reads = <<>> /\ HandleFileUpload(file)
    \/ ReadComplete(1)
    \/ AutoSelectEffect
    \/ \E m \in 1..Len(SelectedMessages) : StartEdit(m)
    \/ \E draft \in Drafts : TypeDraft(draft)
    \/ ConfirmEdit
    \/ HandleDownload
    \/ \E ok \in BOOLEAN : GetResponse(ok)
    \/ \E k \in 1..Len(posts) : \E ok \in BOOLEAN : PostResponse(k, ok)

SpecNet == Init /\ [][NetNext]_vars

-----------------------------------------------------------------------------
(* Properties                                                              *)

\* the positions of the lines that are not blank: some unit is no white space
NonBlank(lines) ==
    {i \in 1..Len(lines) : \E j \in 1..Len(lines[i]) : lines[i][j] \notin Whitespace}

\* the positions of the non-blank lines JSON.parse accepts
Parsed(lines) == {i \in NonBlank(lines) : JSONParse(lines[i]).ok}

\* the k-th smallest element of a set of positions
Nth(S, k) == CHOOSE i \in S : Cardinality({j \in S : j <= i}) = k

\* C1 (selection validity): in every state reached by imports, selections
\* and edits, either nothing is selected or looking the selected conversation
\* up in the collection (indexOf) yields a position of the collection, never
\* "not found".
C1_SelectionValid ==
    selectedConversation # Null =>
        /\ IndexOf(conversations, selectedConversation) # NotFound
        /\ IndexOf(conversations, selectedConversation) \in 1..Len(conversations)

\* C2 (edit isolation): an edit at a valid conversation position c and
\* message position m sets the content of message m of conversation c to the
\* draft and changes nothing else: the role of that message, every other
\* message, every other conversation, the number and order of conversations
\* and of messages, and the error list stay as they were.
C2_EditIsolation ==
    [][ConfirmEdit /\ IndexOf(conversations, selectedConversation) # NotFound =>
         LET c == IndexOf(conversations, selectedConversation)
             m == editingMessage
         IN  /\ Len(Collection') = Len(Collection)
             /\ \A i \in 1..Len(Collection) :
                  /\ Len(Collection'[i].messages) = Len(Collection[i].messages)
                  /\ \A k \in 1..Len(Collection[i].messages) :
                       /\ Collection'[i].messages[k].role
                              = Collection[i].messages[k].role
                       /\ Collection'[i].messages[k].content
                              = IF i = c /\ k = m THEN editedContent
                                ELSE Collection[i].messages[k].content
             /\ errors' = errors]_vars

\* an edit was applied to a collection of two conversations with an error
\* beside them: one message holds a draft no file holds
C2_Witness ==
    /\ Len(Collection) = 2
    /\ errors # <<>>
    /\ \E i \in 1..2 : \E k \in 1..Len(Collection[i].messages) :
         Collection[i].messages[k].content \in Drafts

\* C3 (no stale view): confirming an edit of message m of the selected
\* conversation leaves the selected conversation's messages equal, message
\* for message, to those of a conversation of the updated collection, with
\* the draft as the content of message m in both; and in no state does the
\* selected view differ in content from every entry of the collection.
C3_NoStaleView ==
    /\ [](selectedConversation # Null =>
             \E i \in 1..Len(Collection) : Collection[i] = heap[selectedConversation])
    /\ [][ConfirmEdit =>
            /\ editingMessage \in 1..Len(SelectedMessages')
            /\ SelectedMessages'[editingMessage].content = editedContent
            /\ \E i \in 1..Len(Collection') :
                 Collection'[i].messages = SelectedMessages']_vars

\* C4 (partition): an import puts every non-blank line in exactly one of the
\* collection and the error list and no blank line in either, so the two
\* lengths add up to the number of non-blank lines and a failing line does
\* not stop the lines after it.
C4_Partition ==
    [][ReadComplete(1) =>
         LET lines    == Split(reads[1])
             inErrors == {errors'[j].line : j \in 1..Len(errors')}
         IN  /\ inErrors \subseteq NonBlank(lines)
             /\ Cardinality(inErrors) = Len(errors')
             /\ inErrors \cap Parsed(lines) = {}
             /\ inErrors \cup Parsed(lines) = NonBlank(lines)
             /\ Len(Collection') = Cardinality(Parsed(lines))
             /\ Len(Collection') + Len(errors') = Cardinality(NonBlank(lines))]_vars

\* a text of three lines, one of them blank, one parsed and one failing, has
\* been imported (the editor's request in flight still holds the text)
C4_Witness ==
    /\ posts # <<>>
    /\ Len(Split(posts[1])) = 3
    /\ Cardinality(NonBlank(Split(posts[1]))) = 2
    /\ Len(conversations) = 1
    /\ Len(errors) = 1

\* C5 (order preservation): after an import the i-th conversation of the
\* collection is the parse of the i-th successfully parsed non-blank line of
\* the text, each conversation coming from one line.
C5_OrderPreserved ==
    [][ReadComplete(1) =>
         LET lines == Split(reads[1])
         IN  /\ Len(Collection') = Cardinality(Parsed(lines))
             /\ \A k \in 1..Len(Collection') :
                  Collection'[k] = JSONParse(lines[Nth(Parsed(lines), k)]).val]_vars

\* two different conversations have been imported from a text that holds a
\* blank line between them
C5_Witness ==
    /\ posts # <<>>
    /\ Len(Split(posts[1])) = 3
    /\ Split(posts[1])[2] = <<SP>>
    /\ Len(Collection) = 2
    /\ Len(Collection[1].messages) # Len(Collection[2].messages)

\* C6 (error records): every error an import records holds the 1-based
\* position of a failing line in the text, blank and parsed lines before it
\* counted, and that line's text untrimmed; every failing line has its
\* error; and the errors are in the order of the text, their line numbers
\* strictly increasing.
C6_ErrorRecords ==
    [][ReadComplete(1) =>
         LET lines == Split(reads[1])
         IN  /\ \A j \in 1..Len(errors') :
                  /\ errors'[j].line \in NonBlank(lines) \ Parsed(lines)
                  /\ errors'[j].content = lines[errors'[j].line]
             /\ \A i \in NonBlank(lines) \ Parsed(lines) :
                  \E j \in 1..Len(errors') : errors'[j].line = i
             /\ \A j \in 1..(Len(errors') - 1) :
                  errors'[j].line < errors'[j + 1].line]_vars

\* two errors, at lines 1 and 3 of a text whose line 2 is blank or parsed,
\* the second holding a line with white space around it
C6_Witness ==
    /\ Len(errors) = 2
    /\ errors[1].line = 1
    /\ errors[2].line = 3
    /\ errors[2].content # Trim(errors[2].content)

\* C7 (round trip): in every state reached by imports and edits, importing
\* the serialization of the collection (one JSON line per conversation,
\* joined by line feeds) yields a collection equal to it, in length, order
\* and content, and no error.
C7_RoundTrip ==
    /\ ParseContent(Serialize(Collection)).parsedConversations = Collection
    /\ ParseContent(Serialize(Collection)).newErrors = <<>>

\* a collection of two conversations, one edited to the draft that holds a
\* line feed, a quote and a backslash
C7_Witness ==
    /\ Len(Collection) = 2
    /\ \E i \in 1..2 : \E k \in 1..Len(Collection[i].messages) :
         Collection[i].messages[k].content = <<"x", LF, QUOTE, BSLASH, "n">>

\* a text without the line feed that may end it
Unterminated(text) ==
    IF text # <<>> /\ text[Len(text)] = LF
    THEN SubSeq(text, 1, Len(text) - 1) ELSE text

\* C8 (export content): every file an export of a non-empty collection
\* produces holds exactly one line per conversation of the collection as it
\* stands, in collection order, each line the JSON text of that conversation
\* after the edits applied so far (a line feed ending the file apart).
C8_ExportIsSerialization ==
    [][Len(downloaded') > Len(downloaded) =>
         Split(Unterminated(downloaded'[Len(downloaded')]))
             = StringifyAll(Collection)]_vars

\* C9 (empty export): an export of an empty collection sends the
\* empty-export message to the toast sink, saves no file, issues no request
\* for the server's text and leaves the collection, the errors, the
\* selection and the edit state as they were.
C9_EmptyExport ==
    [][HandleDownload /\ Len(conversations) = 0 =>
         /\ toasts' = Append(toasts, EmptyExportToast)
         /\ Len(downloaded') = Len(downloaded)
         /\ gets' = gets
         /\ Collection' = Collection
         /\ errors' = errors
         /\ selectedConversation' = selectedConversation
         /\ editingMessage' = editingMessage
         /\ editedContent' = editedContent]_vars

\* the empty-export message was sent after an import none of whose lines
\* parsed, and no file has been saved
C9_Witness ==
    /\ toasts # <<>>
    /\ toasts[Len(toasts)] = EmptyExportToast
    /\ Len(conversations) = 0
    /\ errors # <<>>
    /\ downloaded = <<>>

\* C10 (import replaces): after an import the collection and the error list
\* are those of the imported text alone, whatever imports and edits came
\* before.
C10_ImportReplaces ==
    [][ReadComplete(1) =>
         /\ Collection' = ParseContent(reads[1]).parsedConversations
         /\ errors' = ParseContent(reads[1]).newErrors]_vars

\* a file of two equal conversations has just replaced a collection that an
\* earlier import built and an edit changed (the server still holds that
\* collection's text with the draft in it)
C10_Witness ==
    /\ posts # <<>>
    /\ Includes(serverCode, <<"hi", SP, "there">>)
    /\ Collection = ParseContent(TwinsFile).parsedConversations
    /\ errors = <<>>

\* C11 (import resets selection and edit state): in the state right after
\* an import is applied nothing is selected, no message is marked as being
\* edited and the draft is empty, also when the import arrives while a
\* message is being edited.
C11_ImportResetsEdit ==
    [][ReadComplete(1) =>
         /\ selectedConversation' = Null
         /\ editingMessage' = Null
         /\ editedContent' = <<>>]_vars

\* C12 (select): a click on an entry of the list makes the conversation at
\* its position in the collection the selected one, clears the message being
\* edited and the draft, and leaves the collection and the errors as they
\* were.
C12_SelectClearsEdit ==
    [][\A k \in 1..Len(FilteredConversations) :
         HandleConversationSelect(k) =>
             /\ selectedConversation' \in 1..Len(conversations')
             /\ selectedConversation' = OriginalIndex(k)
             /\ heap'[selectedConversation'] = Collection[OriginalIndex(k)]
             /\ editingMessage' = Null
             /\ editedContent' = <<>>
             /\ Collection' = Collection
             /\ errors' = errors]_vars

\* q occurs in text, the case of letters apart
ContainsCI(text, q) == Includes(ToLowerCase(text), ToLowerCase(q))

\* the positions of the conversations whose JSON text or whose label
\* "Conversation <position>" holds the search term, the case of letters apart
MatchingPositions ==
    {i \in 1..Len(conversations) :
        \/ ContainsCI(JSONStringify(Collection[i]), searchTerm)
        \/ ContainsCI(<<"Conversation", SP, ToString(i)>>, searchTerm)}

\* C17 (mirrored text): every text handed to the server, on an import as on
\* an edit, is the serialization of the collection as it stands after that
\* operation: one JSON line per conversation, no blank and no unparseable
\* line (a line feed ending the text apart).
C17_MirrorIsSerialization ==
    [][Len(posts') > Len(posts) =>
         Unterminated(posts'[Len(posts')]) = Serialize(Collection')]_vars

\* C18 (edit targets): every edit the confirm button issues is at a position
\* of the collection, never "not found", and at a message position of the
\* conversation there.
C18_EditTargetsValid ==
    [][ConfirmEdit =>
         /\ IndexOf(conversations, selectedConversation) # NotFound
         /\ IndexOf(conversations, selectedConversation) \in 1..Len(conversations)
         /\ editingMessage \in
                1..Len(Collection[IndexOf(conversations, selectedConversation)].messages)]_vars

\* C19 (original position): the position looked up for the k-th entry of
\* the filtered view is that entry's own position in the collection, the
\* k-th matching position, also when two conversations are equal in
\* content; and a click on the entry selects that very entry.
C19_OriginalPosition ==
    /\ [](\A k \in 1..Len(FilteredConversations) :
             /\ OriginalIndex(k) = Nth(MatchingPositions, k)
             /\ conversations[OriginalIndex(k)] = FilteredConversations[k])
    /\ [][\A k \in 1..Len(FilteredConversations) :
            HandleConversationSelect(k) =>
                selectedConversation' = FilteredConversations[k]]_vars

\* of two conversations equal in content, both in the filtered view, the
\* second is the selected one
C19_Witness ==
    /\ Len(Collection) = 2
    /\ Collection[1] = Collection[2]
    /\ Len(FilteredConversations) = 2
    /\ selectedConversation = conversations[2]

\* C13 (auto-selection): whenever the filtered view is not empty and
\* nothing is selected, a conversation becomes selected; the step that
\* selects it is the effect's, not a user's, and selects the first entry of
\* the filtered view under the current search term; and the effect never
\* changes a selection that is there.
C13_AutoSelect ==
    /\ (~crashed /\ Len(FilteredConversations) > 0 /\ selectedConversation = Null)
           ~> (selectedConversation # Null)
    /\ [][selectedConversation = Null /\ selectedConversation' # Null =>
            /\ effectPending /\ ~effectPending'
            /\ selectedConversation' = FilteredConversations[1]
            /\ searchTerm' = searchTerm
            /\ Collection' = Collection]_vars
    /\ [][effectPending /\ ~effectPending' /\ selectedConversation # Null =>
            /\ selectedConversation' = selectedConversation
            /\ heap'[selectedConversation'] = heap[selectedConversation]]_vars

\* under a search term that the first conversation does not match, the
\* second conversation, first of the filtered view, is the selected one
C13_Witness ==
    /\ searchTerm = <<"HELLO">>
    /\ Len(conversations) = 2
    /\ FilteredConversations = <<conversations[2]>>
    /\ selectedConversation = conversations[2]
    /\ ~effectPending

\* C14 (filter): the filtered view is the subsequence of the collection, in
\* the collection's order, of the conversations whose JSON text or whose
\* label holds the search term, the case of letters apart; the empty term
\* gives the whole collection; and a change of the search term changes
\* neither the collection, the errors nor the selection.
C14_FilterCorrect ==
    /\ [](/\ Len(FilteredConversations) = Cardinality(MatchingPositions)
          /\ \A k \in 1..Len(FilteredConversations) :
               FilteredConversations[k] = conversations[Nth(MatchingPositions, k)]
          /\ (searchTerm = <<>> => FilteredConversations = conversations))
    /\ [][searchTerm' # searchTerm =>
            /\ conversations' = conversations
            /\ Collection' = Collection
            /\ errors' = errors
            /\ selectedConversation' = selectedConversation]_vars

\* a search term in capitals that only the second of two conversations
\* holds in small letters: the view is that conversation alone
C14_Witness ==
    /\ searchTerm = <<"HELLO">>
    /\ Len(conversations) = 2
    /\ errors # <<>>
    /\ Len(FilteredConversations) = 1
    /\ OriginalIndex(1) = 2

\* C15 (overlapping imports): once the reads of two uploads have both
\* completed, the collection and the errors are those of the upload started
\* later, whichever read completed first.
C15_LaterImportWins ==
    (nOps = 2 /\ reads = <<>>) =>
        /\ Collection = ParseContent(SecondFile).parsedConversations
        /\ errors = ParseContent(SecondFile).newErrors

\* C16 (sink failure): a failed request to the server appends the failure
\* message to the toast sink and, like a successful one, leaves the
\* collection, the errors, the selection and the edit state as they were;
\* nothing is thrown, and the component stays mounted and usable.
C16_SinkFailure ==
    [][\A k \in 1..Len(posts) : \A ok \in BOOLEAN :
         PostResponse(k, ok) =>
             /\ ~ok => toasts' = Append(toasts, MirrorFailedToast)
             /\ conversations' = conversations
             /\ heap' = heap
             /\ errors' = errors
             /\ selectedConversation' = selectedConversation
             /\ editingMessage' = editingMessage
             /\ editedContent' = editedContent
             /\ crashed' = crashed
             /\ effectPending' = effectPending]_vars

\* the request of an import failed, and an edit was applied and mirrored
\* after it
C16_Witness ==
    /\ toasts = <<MirrorFailedToast>>
    /\ posts = <<>>
    /\ serverCode # <<>>
    /\ \E i \in 1..Len(Collection) : \E k \in 1..Len(Collection[i].messages) :
         Collection[i].messages[k].content \in Drafts

\* C20 (mirror order): in the editor, once every request sent to the server
\* has been answered and none has failed, the text the server holds, which
\* an export retrieves, is the text of the latest change of the collection:
\* importing it gives the collection as it stands.
C20_MirrorHoldsLatest ==
    (/\ variant = "editor"
     /\ posts = <<>>
     /\ reads = <<>>
     /\ \A i \in 1..Len(toasts) : toasts[i] # MirrorFailedToast) =>
        ParseContent(serverCode).parsedConversations = Collection

====
